---- MODULE Spec2Model ----
(***************************************************************************)
(* CloudStack load-balancer modules of ansible-modules-extras:             *)
(*   cloud/cloudstack/cs_loadbalancer_rule.py         (rule lifecycle)     *)
(*   cloud/cloudstack/cs_loadbalancer_rule_member.py  (rule membership)    *)
(* One module invocation is a process that walks through its provider      *)
(* round-trips; the CloudStack provider (rules, rule instances, async      *)
(* jobs) is the shared state.                                              *)
(***************************************************************************)
EXTENDS Integers, Sequences, FiniteSets, TLC

\* ---------------------------------------------------------------- bounds
\* Invocations started in one behaviour.
MaxRuns == 2
\* Longest `vms` list a caller passes.
MaxWanted == 2

\* ------------------------------------------------------------- universe
None == "None"
\* Python's None where a rule, a job or a scope is expected.
NoRule == [id |-> 0]
NoJob == 0
NoScope == [account |-> None, zone |-> None]
Procs == {1, 2}

\* Resolved scope of an invocation: get_account/get_domain/get_project
\* (folded into `account`) and get_zone.  Callers work in acct1; the
\* provider also holds acct2's rule and VMs.
Accounts == {"acct1"}
Zones == {"zone1"}
Scopes == [account : Accounts, zone : Zones]

RuleNames == {"balance_http"}
PublicIps == {"ip1", "ip2"}
VMNames == {"web01", "web02", "web03"}

\* listVirtualMachines: the provider's VM listing, in listing order.  web01
\* is the name of two VMs of acct1, one per zone; web02 runs in the zone
\* the callers do not work in; web03 exists in acct2 only.
VirtualMachines ==
  << [id |-> "vm1", name |-> "web01", account |-> "acct1", zone |-> "zone1"],
     [id |-> "vm2", name |-> "web02", account |-> "acct1", zone |-> "zone2"],
     [id |-> "vm3", name |-> "web01", account |-> "acct1", zone |-> "zone2"],
     [id |-> "vm4", name |-> "web03", account |-> "acct2", zone |-> "zone1"],
     [id |-> "vm5", name |-> "web01", account |-> "acct2", zone |-> "zone1"] >>

VMIds == {VirtualMachines[i].id : i \in 1..Len(VirtualMachines)}

VMById(id) ==
  LET i == CHOOSE k \in 1..Len(VirtualMachines) : VirtualMachines[k].id = id
  IN  VirtualMachines[i]

\* Rule attributes a caller of cs_loadbalancer_rule supplies.
DefaultAttrs ==
  [algorithm |-> "leastconn", publicport |-> 80, privateport |-> 8080,
   cidrlist |-> None]
RuleAttrs ==
  { DefaultAttrs,
    [algorithm |-> "source", publicport |-> 443, privateport |-> 8443,
     cidrlist |-> "10.0.0.0/8"] }

\* `vms`: a non-empty list of VM names, duplicates allowed.  The module
\* only ever takes set(vms), so one order per multiset is enumerated.
NameOrder(n) ==
  CASE n = "web01" -> 1 [] n = "web02" -> 2 [] n = "web03" -> 3
WantedLists ==
  {w \in UNION {[1..n -> VMNames] : n \in 1..MaxWanted} :
     \A i \in 1..(Len(w) - 1) : NameOrder(w[i]) <= NameOrder(w[i + 1])}

\* module.params of cs_loadbalancer_rule_member.
MemberParams ==
  [module : {"member"}, name : RuleNames, vms : WantedLists,
   state : {"present", "absent"}, scope : Scopes,
   poll_async : BOOLEAN, check_mode : BOOLEAN]

\* module.params of cs_loadbalancer_rule; the rule attributes are given
\* with state=present only.
RuleParams ==
  {a \in [module : {"rule"}, name : RuleNames, public_ip : PublicIps,
          attrs : RuleAttrs, state : {"present", "absent"}, scope : Scopes,
          poll_async : BOOLEAN, check_mode : BOOLEAN] :
     a.state = "absent" => a.attrs = DefaultAttrs}

NoParams == [module |-> None]

VARIABLES
  rules,          \* provider: the load-balancer rules (set of records)
  instances,      \* provider: <<rule id, vm id>> pairs, a rule's members
  jobs,           \* provider: asynchronous jobs (set of records)
  runs,           \* invocations started so far
  pc,             \* per invocation: position in the module's code
  params,         \* per invocation: module.params and module.check_mode
  rule,           \* per invocation: local `rule`
  existing,       \* per invocation: local `existing` (name -> id)
  to_change,      \* per invocation: local `to_change`
  to_change_ids,  \* per invocation: local `to_change_ids`
  res,            \* per invocation: job id in the mutating call's response
  result,         \* per invocation: self.result
  exit,           \* per invocation: "none", "exit_json" or "fail_json"
  msg,            \* per invocation: fail_json's msg
  calls,          \* per invocation: provider calls issued, in order
  prev,           \* history: the invocation that ended last, as observed
  stale           \* history, per invocation: the VMs of its mutating call
                  \* that were members already (add) or members no more
                  \* (remove) when the provider received the call

provider == <<rules, instances, jobs>>
locals == <<rule, existing, to_change, to_change_ids, res, result>>
history == <<prev, stale>>
vars == <<rules, instances, jobs, runs, pc, params, rule, existing,
          to_change, to_change_ids, res, result, exit, msg, calls, prev,
          stale>>

\* ------------------------------------------------------------- provider
Ids == 1..(MaxRuns + 3)

\* An identifier no rule carries and no invocation or job still refers to.
FreshRuleId ==
  LET used == {r.id : r \in rules}
              \cup {rule[p].id : p \in {q \in Procs : rule[q] # NoRule}}
              \cup {j.ruleid : j \in jobs}
  IN  CHOOSE i \in Ids : i \notin used /\ \A k \in Ids : k < i => k \in used

FreshJobId ==
  LET used == {j.jobid : j \in jobs}
  IN  CHOOSE i \in Ids : i \notin used /\ \A k \in Ids : k < i => k \in used

\* The lookup without its account filter.
ListRulesByName_AnyAccount(scope, name) ==
  {r \in rules : r.zone = scope.zone /\ r.name = name}

\* listLoadBalancerRules(account, domainid, projectid, zoneid, name): the
\* membership module's lookup.
ListRulesByName(scope, name) ==
  {r \in rules : r.account = scope.account /\ r.zone = scope.zone
                 /\ r.name = name}

\* The lookup without its publicipid argument.
ListRulesByIp_AnyIp(scope, publicipid, name) == ListRulesByName(scope, name)

\* listLoadBalancerRules(..., publicipid, name): the rule module's lookup.
ListRulesByIp(scope, publicipid, name) ==
  {r \in ListRulesByName(scope, name) : r.publicipid = publicipid}

\* listLoadBalancerRuleInstances(id): the member VMs, in listing order.
ListInstances(ruleid) ==
  SelectSeq(VirtualMachines, LAMBDA vm : <<ruleid, vm.id>> \in instances)

\* listVirtualMachines(**args): the VMs of the account given and, when a
\* zone is given, of that zone; without an argument every VM.
ListVirtualMachines(args) ==
  SelectSeq(VirtualMachines,
            LAMBDA vm : /\ args.account # None => vm.account = args.account
                        /\ args.zone # None => vm.zone = args.zone)

\* One provider call as the invocation issued it.
Call(api, scope, name, publicipid, id, vmids) ==
  [api |-> api, scope |-> scope, name |-> name, publicipid |-> publicipid,
   id |-> id, vmids |-> vmids]

MutatingApis == {"assignToLoadBalancerRule", "removeFromLoadBalancerRule",
                 "createLoadBalancerRule", "deleteLoadBalancerRule"}

\* An asynchronous job resolves: its effect is applied, or it fails and
\* nothing changes.  A job nobody polls is forgotten once resolved.
Polled(j) == \E p \in Procs : pc[p] \in {"m_poll", "r_poll"} /\ res[p] = j.jobid

Resolve(j, status) ==
  jobs' = IF Polled(j)
            THEN (jobs \ {j}) \cup {[j EXCEPT !.status = status]}
            ELSE jobs \ {j}

JobSucceeds(j) ==
  /\ j \in jobs /\ j.status = "pending"
  /\ \/ /\ j.cmd = "assign"
        /\ \E r \in rules : r.id = j.ruleid
        /\ instances' = instances \cup {<<j.ruleid, v>> : v \in j.vmids}
        /\ rules' = rules
     \/ /\ j.cmd = "remove"
        /\ \E r \in rules : r.id = j.ruleid
        /\ instances' = instances \ {<<j.ruleid, v>> : v \in j.vmids}
        /\ rules' = rules
     \/ /\ j.cmd = "create"
        /\ rules' = rules \cup {j.newrule}
        /\ instances' = instances
     \/ /\ j.cmd = "delete"
        /\ rules' = {r \in rules : r.id # j.ruleid}
        /\ instances' = {m \in instances : m[1] # j.ruleid}
  /\ Resolve(j, "ok")
  /\ UNCHANGED <<runs, history, pc, params, locals, exit, msg, calls>>

JobFails(j) ==
  /\ j \in jobs /\ j.status = "pending"
  /\ Resolve(j, "failed")
  /\ UNCHANGED <<rules, instances, runs, history, pc, params, locals, exit,
                 msg, calls>>

Job(jobid, cmd, ruleid, vmids, newrule) ==
  [jobid |-> jobid, cmd |-> cmd, ruleid |-> ruleid, vmids |-> vmids,
   newrule |-> newrule, status |-> "pending"]

\* ------------------------------------------------------ module harness
\* A fail_json that emits the error and returns to its caller.
fail_json_Returns(p, m) ==
  /\ pc' = pc
  /\ exit' = [exit EXCEPT ![p] = "fail_json"]
  /\ msg' = [msg EXCEPT ![p] = m]

\* module.fail_json(msg): the error is emitted and the process exits.
fail_json(p, m) ==
  /\ pc' = [pc EXCEPT ![p] = "failed"]
  /\ exit' = [exit EXCEPT ![p] = "fail_json"]
  /\ msg' = [msg EXCEPT ![p] = m]

\* A provider call raises CloudStackException: main()'s except clause
\* turns it into fail_json.
CloudStackException(p) == fail_json(p, "CloudStackException")

Goto(p, label) ==
  /\ pc' = [pc EXCEPT ![p] = label]
  /\ UNCHANGED <<exit, msg>>

Issue(p, call) == calls' = [calls EXCEPT ![p] = Append(@, call)]

\* The module process starts with the caller's parameters.
Start(p) ==
  /\ pc[p] = "idle"
  /\ runs < MaxRuns
  /\ runs' = runs + 1
  /\ \E a \in MemberParams \cup RuleParams :
       /\ params' = [params EXCEPT ![p] = a]
       /\ pc' = [pc EXCEPT ![p] =
                   IF a.module = "member" THEN "m_get_rule" ELSE "r_get_rule"]
  /\ UNCHANGED <<provider, locals, exit, msg, calls, history>>

\* The module process is gone; nothing of the invocation is kept.
Ends(p) ==
  /\ pc[p] \in {"done", "failed"}
  /\ pc' = [pc EXCEPT ![p] = "idle"]
  /\ params' = [params EXCEPT ![p] = NoParams]
  /\ rule' = [rule EXCEPT ![p] = NoRule]
  /\ existing' = [existing EXCEPT ![p] = <<>>]
  /\ to_change' = [to_change EXCEPT ![p] = {}]
  /\ to_change_ids' = [to_change_ids EXCEPT ![p] = {}]
  /\ res' = [res EXCEPT ![p] = NoJob]
  /\ result' = [result EXCEPT ![p] = [changed |-> FALSE, vms |-> None]]
  /\ exit' = [exit EXCEPT ![p] = "none"]
  /\ msg' = [msg EXCEPT ![p] = None]
  /\ calls' = [calls EXCEPT ![p] = <<>>]
  /\ stale' = [stale EXCEPT ![p] = {}]
  /\ UNCHANGED <<provider, runs>>

Exit(p) == Ends(p) /\ UNCHANGED prev

\* What is kept of an invocation: its parameters, what it emitted,
\* whether it issued a mutating call, and whether the identifiers it
\* resolved for member names were those members' own.
NoPrev ==
  [params |-> NoParams, exit |-> "none", msg |-> None, changed |-> FALSE,
   called |-> FALSE, hit |-> FALSE]
Outcome(p) ==
  [params |-> params[p], exit |-> exit[p], msg |-> msg[p],
   changed |-> result[p].changed,
   called |-> \E i \in DOMAIN calls[p] : calls[p][i].api \in MutatingApis,
   hit |-> \A n \in to_change[p] \cap DOMAIN existing[p] :
             existing[p][n] \in to_change_ids[p]]

\* The process ends and the playbook keeps the task's outcome.
ExitObserved(p) == Ends(p) /\ prev' = Outcome(p)

\* The first task of a playbook that runs one membership task repeatedly.
StartFirst(p) ==
  /\ pc[p] = "idle"
  /\ runs = 0
  /\ runs' = 1
  /\ \E a \in MemberParams :
       /\ params' = [params EXCEPT ![p] = a]
       /\ pc' = [pc EXCEPT ![p] = "m_get_rule"]
  /\ UNCHANGED <<provider, locals, exit, msg, calls, history>>

\* The task again: same rule, state, vms and scope; check mode and
\* poll_async as the caller gives them this time.
StartAgain(p) ==
  /\ pc[p] = "idle"
  /\ runs > 0 /\ runs < MaxRuns
  /\ runs' = runs + 1
  /\ \E a \in MemberParams :
       /\ a.name = prev.params.name /\ a.state = prev.params.state
       /\ a.vms = prev.params.vms /\ a.scope = prev.params.scope
       /\ params' = [params EXCEPT ![p] = a]
       /\ pc' = [pc EXCEPT ![p] = "m_get_rule"]
  /\ UNCHANGED <<provider, locals, exit, msg, calls, history>>

\* One of two tasks of independent plays: a normal-mode membership task
\* that names each VM once.
StartConcurrent(p) ==
  /\ pc[p] = "idle"
  /\ runs < MaxRuns
  /\ runs' = runs + 1
  /\ \E a \in MemberParams :
       /\ ~a.check_mode
       /\ \A i, k \in DOMAIN a.vms : a.vms[i] = a.vms[k] => i = k
       /\ params' = [params EXCEPT ![p] = a]
       /\ pc' = [pc EXCEPT ![p] = "m_get_rule"]
  /\ UNCHANGED <<provider, locals, exit, msg, calls, history>>

\* ------------------------------------------- cs_loadbalancer_rule_member
\* main(): state=absent removes, anything else adds.
Operation(a) == IF a.state = "absent" THEN "remove" ELSE "add"

\* existing = {}; for vm in res: existing[vm['name']] = vm['id']
Existing(listing) ==
  LET names == {listing[i].name : i \in DOMAIN listing}
      last(n) == CHOOSE i \in DOMAIN listing :
                   /\ listing[i].name = n
                   /\ \A k \in DOMAIN listing : listing[k].name = n => k <= i
  IN  [n \in names |-> listing[last(n)].id]

Range(f) == {f[i] : i \in DOMAIN f}

\* add takes every wanted name, member or not.
ToChange_NoDifference(operation, wanted_names, existing_map) ==
  IF operation = "add"
    THEN Range(wanted_names)
    ELSE Range(wanted_names) \cap DOMAIN existing_map

\* The two branches exchanged.
ToChange_Swapped(operation, wanted_names, existing_map) ==
  IF operation = "add"
    THEN Range(wanted_names) \cap DOMAIN existing_map
    ELSE Range(wanted_names) \ DOMAIN existing_map

\* to_change: set difference for add, intersection for remove.
ToChange(operation, wanted_names, existing_map) ==
  IF operation = "add"
    THEN Range(wanted_names) \ DOMAIN existing_map
    ELSE Range(wanted_names) \cap DOMAIN existing_map

\* The listing called without any argument.
CommonArgs_Empty(a) == NoScope

\* _get_common_args(): account, domainid and projectid, no zoneid.
CommonArgs(a) == [account |-> a.scope.account, zone |-> None]

\* The inner for loop: the first VM of the listing called `name`.
Known(vms, name) == \E i \in DOMAIN vms : vms[i].name = name

FirstMatch(vms, name) ==
  LET i == CHOOSE k \in DOMAIN vms :
             /\ vms[k].name = name
             /\ \A m \in DOMAIN vms : vms[m].name = name => k <= m
  IN  vms[i].id

\* The inner loop without its break: every VM called `name` is taken.
ToChangeIds_AllMatches(vms, names) ==
  {vms[i].id : i \in {k \in DOMAIN vms : vms[k].name \in names}}

\* The outer loop over to_change: one identifier per name that is found.
ToChangeIds(vms, names) ==
  {FirstMatch(vms, n) : n \in {m \in names : Known(vms, m)}}

\* The loop without its else clause.
HasUnknown_Never(vms, names) == FALSE

\* The loop's else clause: a name without a match fails the invocation.
HasUnknown(vms, names) == \E n \in names : ~Known(vms, n)

\* changed set where the call is made, as the rule module does.
Changed_WhenApplied(a, ids) == ids # {} /\ ~a.check_mode

\* if to_change_ids: self.result['changed'] = True
Changed(a, ids) == ids # {}

\* The apply step without its check-mode test.
Applies_IgnoresCheckMode(a, ids) == ids # {}

\* if to_change_ids and not self.module.check_mode
Applies(a, ids) == ids # {} /\ ~a.check_mode

\* Both operations bound to the assign call.
CsFunc_AlwaysAssign(operation) == "assignToLoadBalancerRule"

\* cs_func: assignToLoadBalancerRule for add, removeFromLoadBalancerRule
\* for remove.
CsFunc(operation) ==
  IF operation = "add" THEN "assignToLoadBalancerRule"
                       ELSE "removeFromLoadBalancerRule"

JobCmd(api) ==
  CASE api = "assignToLoadBalancerRule" -> "assign"
    [] api = "removeFromLoadBalancerRule" -> "remove"
    [] api = "createLoadBalancerRule" -> "create"
    [] api = "deleteLoadBalancerRule" -> "delete"

\* rule = self.get_rule(); fail on an unknown rule.
M_get_rule(p) ==
  /\ pc[p] = "m_get_rule"
  /\ LET a == params[p]
         found == ListRulesByName(a.scope, a.name)
     IN  /\ Issue(p, Call("listLoadBalancerRules", a.scope, a.name, None,
                          0, {}))
         /\ \/ CloudStackException(p) /\ UNCHANGED rule
            \/ /\ found = {}
               /\ fail_json(p, "Unknown rule")
               /\ UNCHANGED rule
            \/ \E r \in found :
                 /\ rule' = [rule EXCEPT ![p] = r]
                 /\ Goto(p, "m_list_instances")
  /\ UNCHANGED <<provider, runs, history, params, existing, to_change,
                 to_change_ids, res, result>>

\* The member listing, `existing` and `to_change`; an empty delta returns.
M_list_instances(p) ==
  /\ pc[p] = "m_list_instances"
  /\ LET a == params[p]
         ex == Existing(ListInstances(rule[p].id))
         tc == ToChange(Operation(a), a.vms, ex)
     IN  /\ Issue(p, Call("listLoadBalancerRuleInstances", NoScope, None,
                          None, rule[p].id, {}))
         /\ \/ CloudStackException(p) /\ UNCHANGED <<existing, to_change>>
            \/ /\ existing' = [existing EXCEPT ![p] = ex]
               /\ to_change' = [to_change EXCEPT ![p] = tc]
               /\ Goto(p, IF tc = {} THEN "m_get_result" ELSE "m_list_vms")
  /\ UNCHANGED <<provider, runs, history, params, rule, to_change_ids, res,
                 result>>

\* The VM listing and the name resolution; result['changed'] is set.
M_list_vms(p) ==
  /\ pc[p] = "m_list_vms"
  /\ LET a == params[p]
         vms == ListVirtualMachines(CommonArgs(a))
         ids == ToChangeIds(vms, to_change[p])
     IN  /\ Issue(p, Call("listVirtualMachines", CommonArgs(a), None, None,
                          0, {}))
         /\ \/ CloudStackException(p) /\ UNCHANGED <<to_change_ids, result>>
            \/ /\ HasUnknown(vms, to_change[p])
               /\ fail_json(p, "Unknown VM")
               /\ UNCHANGED <<to_change_ids, result>>
            \/ /\ ~HasUnknown(vms, to_change[p])
               /\ to_change_ids' = [to_change_ids EXCEPT ![p] = ids]
               /\ result' = [result EXCEPT ![p].changed = Changed(a, ids) \/ @]
               /\ Goto(p, IF Applies(a, ids) THEN "m_call" ELSE "m_get_result")
  /\ UNCHANGED <<provider, runs, history, params, rule, existing, to_change,
                 res>>

\* The call's response is returned as it is, the job never polled.
AfterCall_NeverPolls(a) == "m_get_result"

\* poll_async = self.module.params.get('poll_async'); if poll_async: the
\* job is polled and the rule fetched again, else the invocation goes on
\* to its result.
AfterCall(a) == IF a.poll_async THEN "m_poll" ELSE "m_get_result"

\* The one mutating call: cs_func(id, virtualmachineids).
M_call(p) ==
  /\ pc[p] = "m_call"
  /\ LET a == params[p]
         api == CsFunc(Operation(a))
         jobid == FreshJobId
     IN  /\ Issue(p, Call(api, NoScope, None, None, rule[p].id,
                          to_change_ids[p]))
         /\ stale' = [stale EXCEPT ![p] =
               {v \in to_change_ids[p] :
                  (<<rule[p].id, v>> \in instances) <=> (api = CsFunc("add"))}]
         /\ \/ CloudStackException(p) /\ UNCHANGED <<jobs, res>>
            \/ fail_json(p, "Failed: errortext") /\ UNCHANGED <<jobs, res>>
            \/ /\ jobs' = jobs \cup {Job(jobid, JobCmd(api), rule[p].id,
                                         to_change_ids[p], NoRule)}
               /\ res' = [res EXCEPT ![p] = jobid]
               /\ Goto(p, AfterCall(a))
  /\ UNCHANGED <<rules, instances, runs, prev, params, rule, existing,
                 to_change, to_change_ids, result>>

\* self.poll_job(res): blocks until the job is resolved; a failed job
\* fails the invocation, and so does a query that raises.
M_poll(p) ==
  /\ pc[p] = "m_poll"
  /\ \E j \in jobs :
       /\ j.jobid = res[p]
       /\ Issue(p, Call("queryAsyncJobResult", NoScope, None, None, j.jobid,
                       {}))
       /\ \/ /\ CloudStackException(p)
             /\ jobs' = IF j.status = "pending" THEN jobs ELSE jobs \ {j}
          \/ /\ j.status # "pending"
             /\ jobs' = jobs \ {j}
             /\ IF j.status = "failed"
                  THEN fail_json(p, "Failed: job errortext")
                  ELSE Goto(p, "m_refetch")
  /\ UNCHANGED <<rules, instances, runs, history, params, locals>>

\* rule = self.get_rule() after the job.
M_refetch(p) ==
  /\ pc[p] = "m_refetch"
  /\ LET a == params[p]
         found == ListRulesByName(a.scope, a.name)
     IN  /\ Issue(p, Call("listLoadBalancerRules", a.scope, a.name, None,
                          0, {}))
         /\ \/ CloudStackException(p) /\ UNCHANGED rule
            \/ /\ found = {}
               /\ rule' = [rule EXCEPT ![p] = NoRule]
               /\ Goto(p, "m_get_result")
            \/ \E r \in found :
                 /\ rule' = [rule EXCEPT ![p] = r]
                 /\ Goto(p, "m_get_result")
  /\ UNCHANGED <<provider, runs, history, params, existing, to_change,
                 to_change_ids, res, result>>

\* get_result(rule) and module.exit_json(**result).
M_get_result(p) ==
  /\ pc[p] = "m_get_result"
  /\ IF rule[p] = NoRule
       THEN /\ pc' = [pc EXCEPT ![p] = "done"]
            /\ exit' = [exit EXCEPT ![p] = "exit_json"]
            /\ UNCHANGED <<msg, result, calls>>
       ELSE /\ Issue(p, Call("listLoadBalancerRuleInstances", NoScope, None,
                             None, rule[p].id, {}))
            /\ \/ CloudStackException(p) /\ UNCHANGED result
               \/ /\ result' = [result EXCEPT ![p].vms =
                       LET l == ListInstances(rule[p].id)
                       IN  [i \in DOMAIN l |-> l[i].name]]
                  /\ pc' = [pc EXCEPT ![p] = "done"]
                  /\ exit' = [exit EXCEPT ![p] = "exit_json"]
                  /\ UNCHANGED msg
  /\ UNCHANGED <<provider, runs, history, params, rule, existing, to_change,
                 to_change_ids, res>>

\* --------------------------------------------------- cs_loadbalancer_rule
\* create_lb_rule without its test of the rule found.
CreateApplies_Always(a, r) == ~a.check_mode

\* create_lb_rule: if not rule and not self.module.check_mode
CreateApplies(a, r) == r = NoRule /\ ~a.check_mode

\* delete_lb_rule without its test of the rule found.
DeleteApplies_Always(a, r) == ~a.check_mode

\* delete_lb_rule: if rule and not self.module.check_mode
DeleteApplies(a, r) == r # NoRule /\ ~a.check_mode

\* main(): state=absent deletes, anything else creates; where the
\* invocation goes after its lookup returned r.
AfterLookup(a, r) ==
  IF a.state = "absent"
    THEN IF DeleteApplies(a, r) THEN "r_delete" ELSE "r_get_result"
    ELSE IF CreateApplies(a, r) THEN "r_create" ELSE "r_get_result"

\* The rule createLoadBalancerRule is asked for: the common args plus
\* algorithm, privateport, publicport and cidrlist.
NewRule(id, a) ==
  [id |-> id, account |-> a.scope.account, zone |-> a.scope.zone,
   publicipid |-> a.public_ip, name |-> a.name,
   algorithm |-> a.attrs.algorithm, publicport |-> a.attrs.publicport,
   privateport |-> a.attrs.privateport, cidrlist |-> a.attrs.cidrlist]

\* args = self._get_common_args(); rule = self.get_rule(**args).  The
\* public_ip parameter stands for the publicipid get_ip_address resolved.
R_get_rule(p) ==
  /\ pc[p] = "r_get_rule"
  /\ LET a == params[p]
         found == ListRulesByIp(a.scope, a.public_ip, a.name)
     IN  /\ Issue(p, Call("listLoadBalancerRules", a.scope, a.name,
                          a.public_ip, 0, {}))
         /\ \/ CloudStackException(p) /\ UNCHANGED rule
            \/ /\ found = {}
               /\ rule' = [rule EXCEPT ![p] = NoRule]
               /\ Goto(p, AfterLookup(a, NoRule))
            \/ \E r \in found :
                 /\ rule' = [rule EXCEPT ![p] = r]
                 /\ Goto(p, AfterLookup(a, r))
  /\ UNCHANGED <<provider, runs, history, params, existing, to_change,
                 to_change_ids, res, result>>

\* res = self.cs.createLoadBalancerRule(**args)
R_create(p) ==
  /\ pc[p] = "r_create"
  /\ LET a == params[p]
         jobid == FreshJobId
         new == NewRule(FreshRuleId, a)
     IN  /\ Issue(p, Call("createLoadBalancerRule", a.scope, a.name,
                          a.public_ip, 0, {}))
         /\ \/ CloudStackException(p) /\ UNCHANGED <<jobs, res, rule, result>>
            \/ /\ fail_json(p, "Failed: errortext")
               /\ UNCHANGED <<jobs, res, rule, result>>
            \/ /\ jobs' = jobs \cup {Job(jobid, "create", new.id, {}, new)}
               /\ res' = [res EXCEPT ![p] = jobid]
               /\ IF a.poll_async
                    THEN Goto(p, "r_poll") /\ UNCHANGED <<rule, result>>
                    ELSE /\ rule' = [rule EXCEPT ![p] = [id |-> new.id]]
                         /\ result' = [result EXCEPT ![p].changed = TRUE]
                         /\ Goto(p, "r_get_result")
  /\ UNCHANGED <<rules, instances, runs, history, params, existing, to_change,
                 to_change_ids>>

\* res = self.cs.deleteLoadBalancerRule(id=rule['id'])
R_delete(p) ==
  /\ pc[p] = "r_delete"
  /\ LET a == params[p]
         jobid == FreshJobId
     IN  /\ Issue(p, Call("deleteLoadBalancerRule", NoScope, None, None,
                          rule[p].id, {}))
         /\ \/ CloudStackException(p) /\ UNCHANGED <<jobs, res, result>>
            \/ /\ fail_json(p, "Failed: errortext")
               /\ UNCHANGED <<jobs, res, result>>
            \/ /\ jobs' = jobs \cup {Job(jobid, "delete", rule[p].id, {}, NoRule)}
               /\ res' = [res EXCEPT ![p] = jobid]
               /\ IF a.poll_async
                    THEN Goto(p, "r_poll") /\ UNCHANGED result
                    ELSE /\ result' = [result EXCEPT ![p].changed = TRUE]
                         /\ Goto(p, "r_get_result")
  /\ UNCHANGED <<rules, instances, runs, history, params, rule, existing,
                 to_change, to_change_ids>>

\* poll_job(res, 'loadbalancer'): create keeps the job's rule as `rule`.
R_poll(p) ==
  /\ pc[p] = "r_poll"
  /\ \E j \in jobs :
       /\ j.jobid = res[p]
       /\ Issue(p, Call("queryAsyncJobResult", NoScope, None, None, j.jobid,
                       {}))
       /\ \/ /\ CloudStackException(p)
             /\ jobs' = IF j.status = "pending" THEN jobs ELSE jobs \ {j}
             /\ UNCHANGED <<rule, result>>
          \/ /\ j.status # "pending"
             /\ jobs' = jobs \ {j}
             /\ IF j.status = "failed"
                  THEN fail_json(p, "Failed: job errortext")
                       /\ UNCHANGED <<rule, result>>
                  ELSE /\ rule' = [rule EXCEPT ![p] =
                                     IF j.cmd = "create" THEN j.newrule ELSE @]
                       /\ result' = [result EXCEPT ![p].changed = TRUE]
                       /\ Goto(p, "r_get_result")
  /\ UNCHANGED <<rules, instances, runs, history, params, existing, to_change,
                 to_change_ids, res>>

\* result = acs_lb_rule.get_result(rule); module.exit_json(**result)
R_get_result(p) ==
  /\ pc[p] = "r_get_result"
  /\ pc' = [pc EXCEPT ![p] = "done"]
  /\ exit' = [exit EXCEPT ![p] = "exit_json"]
  /\ UNCHANGED <<provider, runs, history, params, locals, msg, calls>>

\* ------------------------------------------------------- specification
\* acct2's rule of the same name, with one member.
ForeignRule ==
  [id |-> 1, account |-> "acct2", zone |-> "zone1", publicipid |-> "ip1",
   name |-> "balance_http", algorithm |-> "source", publicport |-> 443,
   privateport |-> 8443, cidrlist |-> None]

InitialRule ==
  [id |-> 2, account |-> "acct1", zone |-> "zone1", publicipid |-> "ip1",
   name |-> "balance_http", algorithm |-> "leastconn", publicport |-> 80,
   privateport |-> 8080, cidrlist |-> None]

InitialMembers == {{}, {"vm1"}, {"vm1", "vm2"}, {"vm3"}}

\* The provider holds acct2's rule and, in acct1, no rule or one rule with
\* some of acct1's VMs as members; no module process runs.
Init ==
  /\ \/ rules = {ForeignRule} /\ instances = {<<ForeignRule.id, "vm5">>}
     \/ /\ rules = {ForeignRule, InitialRule}
        /\ \E m \in InitialMembers :
             instances = {<<ForeignRule.id, "vm5">>}
                         \cup {<<InitialRule.id, v>> : v \in m}
  /\ jobs = {}
  /\ runs = 0
  /\ pc = [p \in Procs |-> "idle"]
  /\ params = [p \in Procs |-> NoParams]
  /\ rule = [p \in Procs |-> NoRule]
  /\ existing = [p \in Procs |-> <<>>]
  /\ to_change = [p \in Procs |-> {}]
  /\ to_change_ids = [p \in Procs |-> {}]
  /\ res = [p \in Procs |-> NoJob]
  /\ result = [p \in Procs |-> [changed |-> FALSE, vms |-> None]]
  /\ exit = [p \in Procs |-> "none"]
  /\ msg = [p \in Procs |-> None]
  /\ calls = [p \in Procs |-> <<>>]
  /\ prev = NoPrev
  /\ stale = [p \in Procs |-> {}]

\* A playbook runs its tasks in sequence: one module process at a time,
\* in the first slot.
Alone(p) == p = 1

Next ==
  \/ \E p \in Procs : Alone(p) /\ Start(p)
  \/ \E p \in Procs : Exit(p)
  \/ \E p \in Procs : M_get_rule(p)
  \/ \E p \in Procs : M_list_instances(p)
  \/ \E p \in Procs : M_list_vms(p)
  \/ \E p \in Procs : M_call(p)
  \/ \E p \in Procs : M_poll(p)
  \/ \E p \in Procs : M_refetch(p)
  \/ \E p \in Procs : M_get_result(p)
  \/ \E p \in Procs : R_get_rule(p)
  \/ \E p \in Procs : R_create(p)
  \/ \E p \in Procs : R_delete(p)
  \/ \E p \in Procs : R_poll(p)
  \/ \E p \in Procs : R_get_result(p)
  \/ \E j \in jobs : JobSucceeds(j)
  \/ \E j \in jobs : JobFails(j)

Spec == Init /\ [][Next]_vars

\* A playbook that runs the same membership task repeatedly, one process
\* at a time, and looks at each outcome.
NextRepeat ==
  \/ \E p \in Procs : Alone(p) /\ StartFirst(p)
  \/ \E p \in Procs : Alone(p) /\ StartAgain(p)
  \/ \E p \in Procs : ExitObserved(p)
  \/ \E p \in Procs : M_get_rule(p)
  \/ \E p \in Procs : M_list_instances(p)
  \/ \E p \in Procs : M_list_vms(p)
  \/ \E p \in Procs : M_call(p)
  \/ \E p \in Procs : M_poll(p)
  \/ \E p \in Procs : M_refetch(p)
  \/ \E p \in Procs : M_get_result(p)
  \/ \E j \in jobs : JobSucceeds(j)
  \/ \E j \in jobs : JobFails(j)

SpecRepeat == Init /\ [][NextRepeat]_vars

\* Two plays run a membership task each at the same time: the steps of
\* the two module processes interleave.
NextConcurrent ==
  \/ \E p \in Procs : StartConcurrent(p)
  \/ \E p \in Procs : M_get_rule(p)
  \/ \E p \in Procs : M_list_instances(p)
  \/ \E p \in Procs : M_list_vms(p)
  \/ \E p \in Procs : M_call(p)
  \/ \E p \in Procs : M_poll(p)
  \/ \E p \in Procs : M_refetch(p)
  \/ \E p \in Procs : M_get_result(p)
  \/ \E j \in jobs : JobSucceeds(j)
  \/ \E j \in jobs : JobFails(j)

SpecConcurrent == Init /\ [][NextConcurrent]_vars

\* ------------------------------------------------------------ properties
IsMember(p) == params[p].module = "member"
IsRule(p) == params[p].module = "rule"
IsAdd(p) == IsMember(p) /\ params[p].state # "absent"
IsRemove(p) == IsMember(p) /\ params[p].state = "absent"

\* The calls of an invocation to one of `apis`, as positions of its log.
Issued(p, apis) == {i \in DOMAIN calls[p] : calls[p][i].api \in apis}
Mutating(p) == Issued(p, MutatingApis)

\* The invocation has read the rule's member list.
HasRead(p) ==
  pc[p] \in {"m_list_vms", "m_call", "m_poll", "m_refetch", "m_get_result",
             "done"}

\* Section 4.3's delta of desired names against the member names read.
Desired(p) == {params[p].vms[i] : i \in DOMAIN params[p].vms}
Current(p) == DOMAIN existing[p]
Delta(p) ==
  IF IsAdd(p) THEN Desired(p) \ Current(p) ELSE Desired(p) \cap Current(p)

\* The step just taken is a step of invocation p.
StepOf(p) == pc'[p] # pc[p]

\* C1: a membership invocation whose desired names are all members already
\* (add) or all non-members (remove) ends unchanged: result['changed'] stays
\* false, no assign/remove call is issued and the invocation goes straight
\* to its result, in check mode and in normal mode.
C1_Idempotence ==
  \A p \in Procs :
    (IsMember(p) /\ HasRead(p) /\ Delta(p) = {}) =>
      /\ ~result[p].changed
      /\ Mutating(p) = {}
      /\ pc[p] \in {"m_get_result", "done"}

C1_Witness ==
  \E p \in Procs :
    /\ IsAdd(p) /\ pc[p] = "done" /\ exit[p] = "exit_json"
    /\ ~params[p].check_mode
    /\ Current(p) # {} /\ Desired(p) \subseteq Current(p)
    /\ ~result[p].changed /\ Mutating(p) = {}

\* C2: in check mode a membership invocation issues no assign/remove call
\* and none of its steps changes the provider's rules, members or jobs,
\* and the changed flag it exits with is true exactly when its delta is
\* not empty.
C2_DryRun ==
  /\ [](\A p \in Procs :
          (IsMember(p) /\ params[p].check_mode) =>
            /\ Mutating(p) = {}
            /\ (pc[p] = "done" => (result[p].changed <=> Delta(p) # {})))
  /\ [][\A p \in Procs :
          (IsMember(p) /\ params[p].check_mode /\ StepOf(p)) =>
            UNCHANGED <<rules, instances, jobs>>]_vars

C2_Witness ==
  \E p \in Procs :
    /\ IsMember(p) /\ params[p].check_mode
    /\ pc[p] = "done" /\ exit[p] = "exit_json"
    /\ Delta(p) # {} /\ result[p].changed /\ Mutating(p) = {}

\* C3: an add invocation issues no remove call, a remove invocation no
\* assign call; a step of an add invocation removes no member and starts
\* assign jobs only, a step of a remove invocation adds no member and
\* starts remove jobs only.
C3_Directionality ==
  /\ [](\A p \in Procs :
          /\ IsAdd(p) => Issued(p, {"removeFromLoadBalancerRule"}) = {}
          /\ IsRemove(p) => Issued(p, {"assignToLoadBalancerRule"}) = {})
  /\ [][\A p \in Procs :
          /\ (IsAdd(p) /\ StepOf(p)) =>
               /\ instances \subseteq instances'
               /\ \A j \in jobs' \ jobs : j.cmd = "assign"
          /\ (IsRemove(p) /\ StepOf(p)) =>
               /\ instances' \subseteq instances
               /\ \A j \in jobs' \ jobs : j.cmd = "remove"]_vars

\* An add went through and a member the caller did not name is still there.
C3_Witness ==
  \E p \in Procs :
    /\ IsAdd(p) /\ pc[p] = "done" /\ Mutating(p) # {}
    /\ \E n \in Current(p) \ Desired(p) :
         \E v \in VMIds : VMById(v).name = n /\ <<rule[p].id, v>> \in instances
    /\ \A v \in to_change_ids[p] : <<rule[p].id, v>> \in instances

\* C4: the delta computed is desired minus current names for add and
\* desired intersected with current names for remove, and the identifiers
\* resolved and sent to the provider name exactly the VMs of that delta.
NamesOf(ids) == {VMById(v).name : v \in ids}
C4_Minimality ==
  \A p \in Procs :
    (IsMember(p) /\ HasRead(p)) =>
      /\ to_change[p] = Delta(p)
      /\ pc[p] \in {"m_call", "m_poll", "m_refetch"} =>
           NamesOf(to_change_ids[p]) = Delta(p)
      /\ \A i \in Mutating(p) :
           /\ NamesOf(calls[p][i].vmids) = Delta(p)
           /\ calls[p][i].vmids = to_change_ids[p]

C4_Witness ==
  \E p \in Procs :
    /\ IsRemove(p) /\ pc[p] = "done" /\ Mutating(p) # {}
    /\ Desired(p) \ Current(p) # {}
    /\ Current(p) \ Desired(p) # {}

\* The scoped VM listing an invocation resolves names against.
Unknown(p, n) == ~\E i \in DOMAIN VirtualMachines :
                    /\ VirtualMachines[i].account = params[p].scope.account
                    /\ VirtualMachines[i].name = n

Called(p, api) == Issued(p, {api}) # {}

\* C5 as stated: no membership invocation whose desired list holds a name
\* absent from the scoped VM listing ends with a result.
C5_AsStated ==
  \A p \in Procs :
    (IsMember(p) /\ \E n \in Desired(p) : Unknown(p, n)) =>
      exit[p] # "exit_json"

\* C5: a membership invocation whose delta holds a name absent from the
\* scoped VM listing never gets past the name resolution: it issues no
\* mutating call and emits no result, and once the VM listing is answered
\* it has failed with "Unknown VM" (with the provider's exception when the
\* listing itself raised); no other invocation fails that way.
C5_UnknownVM ==
  /\ \A p \in Procs :
       (IsMember(p) /\ HasRead(p) /\ \E n \in Delta(p) : Unknown(p, n)) =>
         /\ Mutating(p) = {}
         /\ pc[p] = "m_list_vms"
  /\ \A p \in Procs :
       (IsMember(p) /\ pc[p] = "failed" /\ Called(p, "listVirtualMachines")
        /\ \E n \in Delta(p) : Unknown(p, n)) =>
         /\ msg[p] \in {"Unknown VM", "CloudStackException"}
         /\ exit[p] = "fail_json"
         /\ Mutating(p) = {}
  /\ \A p \in Procs :
       (IsMember(p) /\ msg[p] = "Unknown VM") =>
         /\ pc[p] = "failed"
         /\ \E n \in Delta(p) : Unknown(p, n)

C5_Witness ==
  \E p \in Procs :
    /\ IsAdd(p) /\ pc[p] = "failed" /\ msg[p] = "Unknown VM"
    /\ \E n \in Delta(p) : Unknown(p, n)
    /\ \E n \in Delta(p) : ~Unknown(p, n)

\* A rule of that name exists in the invocation's scope.
InScope(p) ==
  \E r \in rules : /\ r.account = params[p].scope.account
                   /\ r.zone = params[p].scope.zone
                   /\ r.name = params[p].name

\* C6: a membership invocation whose rule does not exist in scope fails at
\* the lookup with "Unknown rule"; it has then issued that lookup only; a
\* membership invocation never issues createLoadBalancerRule and none of
\* its steps adds a rule; a rule found with no member is read as the empty
\* member list, and add's delta is then every desired name.
C6_UnknownRule ==
  /\ [](\A p \in Procs :
          IsMember(p) =>
            /\ Issued(p, {"createLoadBalancerRule"}) = {}
            /\ (pc[p] = "failed" /\ msg[p] = "Unknown rule") =>
                 (exit[p] = "fail_json" /\ Len(calls[p]) = 1)
            /\ (HasRead(p) /\ IsAdd(p) /\ Current(p) = {}) =>
                 to_change[p] = Desired(p))
  /\ [][\A p \in Procs :
          (IsMember(p) /\ StepOf(p)) =>
            /\ rules' \subseteq rules
            /\ pc[p] = "m_get_rule" =>
                 IF InScope(p)
                   THEN pc'[p] = "m_list_instances"
                        \/ (pc'[p] = "failed"
                            /\ msg'[p] = "CloudStackException")
                   ELSE pc'[p] = "failed"
                        /\ msg'[p] \in {"Unknown rule",
                                        "CloudStackException"}]_vars

C6_Witness ==
  \E p \in Procs :
    /\ IsMember(p) /\ pc[p] = "failed" /\ msg[p] = "Unknown rule"
    /\ ~InScope(p) /\ rules # {} /\ Mutating(p) = {}

IsCreate(p) == IsRule(p) /\ params[p].state # "absent"
IsDelete(p) == IsRule(p) /\ params[p].state = "absent"

\* A rule of that name exists in the invocation's scope on the public IP
\* the invocation resolved.
OnIp(p) ==
  \E r \in rules : /\ r.account = params[p].scope.account
                   /\ r.zone = params[p].scope.zone
                   /\ r.name = params[p].name
                   /\ r.publicipid = params[p].public_ip

\* The step is the answer to invocation p's rule lookup.
Lookup(p) == pc[p] = "r_get_rule" /\ StepOf(p)
Raised(p) == pc'[p] = "failed" /\ msg'[p] = "CloudStackException"

C8_AsStated ==
  \A p \in Procs :
    (IsRule(p) /\ params[p].check_mode /\ pc[p] = "done"
     /\ (IsCreate(p) <=> rule[p] = NoRule)) =>
      /\ result[p].changed
      /\ Mutating(p) = {}

C10_FailureTerminal ==
  /\ [](\A p \in Procs :
          /\ exit[p] = "fail_json" <=> pc[p] = "failed"
          /\ exit[p] = "exit_json" <=> pc[p] = "done"
          /\ exit[p] \in {"none", "exit_json", "fail_json"}
          /\ msg[p] # None <=> pc[p] = "failed"
          /\ Cardinality(Mutating(p)) <= 1)
  /\ [][\A p \in Procs :
          /\ (pc[p] = "failed" /\ StepOf(p)) =>
               /\ pc'[p] = "idle"
               /\ UNCHANGED <<rules, instances, jobs>>
          /\ pc[p] = "failed" =>
               calls'[p] = calls[p] \/ calls'[p] = <<>>
          /\ (msg[p] = None /\ msg'[p] # None) =>
               pc'[p] = "failed" /\ exit'[p] = "fail_json"]_vars

\* A membership invocation failed by the provider's answer to its one
\* mutating call, the last call of its log.
C10_Witness ==
  \E p \in Procs :
    /\ IsMember(p) /\ pc[p] = "failed" /\ exit[p] = "fail_json"
    /\ msg[p] = "Failed: errortext"
    /\ Mutating(p) = {Len(calls[p])}

\* The first VM of that name in the VM listing of the invocation's account.
FirstInListing(p, n) ==
  LET own == {i \in DOMAIN VirtualMachines :
                /\ VirtualMachines[i].account = params[p].scope.account
                /\ VirtualMachines[i].name = n}
      i == CHOOSE k \in own : \A m \in own : k <= m
  IN  VirtualMachines[i].id

\* The invocation has got past the place of its mutating call with a delta.
Applied(p) ==
  \/ pc[p] \in {"m_poll", "m_refetch"}
  \/ pc[p] \in {"m_get_result", "done"} /\ Delta(p) # {}

\* C12: a normal-mode membership invocation with a non-empty delta issues
\* exactly one mutating call, assignToLoadBalancerRule for add and
\* removeFromLoadBalancerRule for remove, on the id of the rule it read;
\* the call carries one VM identifier per distinct name of the delta, the
\* first VM of that name in the VM listing, however often the name is given
\* and however many VMs carry it.
C12_SingleBatch ==
  \A p \in Procs :
    (IsMember(p) /\ ~params[p].check_mode /\ HasRead(p)) =>
      /\ Applied(p) => Cardinality(Mutating(p)) = 1
      /\ \A i \in Mutating(p) :
           /\ calls[p][i].api = IF IsAdd(p) THEN "assignToLoadBalancerRule"
                                            ELSE "removeFromLoadBalancerRule"
           /\ calls[p][i].id = calls[p][2].id
           /\ calls[p][2].api = "listLoadBalancerRuleInstances"
           /\ Delta(p) # {}
           /\ Cardinality(calls[p][i].vmids) = Cardinality(Delta(p))
           /\ calls[p][i].vmids = {FirstInListing(p, n) : n \in Delta(p)}

\* web01 given twice, carried by two VMs of the account: one identifier.
C12_Witness ==
  \E p \in Procs :
    /\ IsAdd(p) /\ ~params[p].check_mode /\ pc[p] = "done"
    /\ params[p].vms = <<"web01", "web01">>
    /\ \E i \in Mutating(p) : calls[p][i].vmids = {"vm1"}
    /\ Cardinality(Mutating(p)) = 1

\* The names of the VMs the provider holds as members of a rule.
MemberNames(ruleid) ==
  {VMById(m[2]).name : m \in {x \in instances : x[1] = ruleid}}

\* C13 as stated: a normal-mode, polled membership invocation that is done,
\* every desired name known in its account, being the first invocation of
\* the behaviour (nothing else touches the provider while it runs), leaves
\* the rule with the member names current + desired for add and
\* current - desired for remove.
C13_AsStated ==
  \A p \in Procs :
    (IsMember(p) /\ runs = 1 /\ pc[p] = "done"
     /\ ~params[p].check_mode /\ params[p].poll_async
     /\ \A n \in Desired(p) : ~Unknown(p, n)) =>
      MemberNames(calls[p][2].id) =
        IF IsAdd(p) THEN Current(p) \cup Desired(p)
                    ELSE Current(p) \ Desired(p)

\* The provider's job the invocation's mutating call started, while the
\* provider still holds it.
OwnJobs(p) == {j \in jobs : j.jobid = res[p]}

\* The calls of the log after position i.
After(p, i, api) == {k \in Issued(p, {api}) : k > i}

\* C14: with poll_async a membership invocation that issued its mutating
\* call queries the job before anything else; its poll returns only for a
\* resolved job, a failed job ends the invocation with fail_json, and a
\* job that went through is followed by the rule lookup, which precedes the
\* result.  Without poll_async the invocation goes from the call straight
\* to its result: no job query, no second rule lookup, the job left as the
\* provider holds it.
C14_PollOrder ==
  /\ [](\A p \in Procs :
          (IsMember(p) /\ Mutating(p) # {}) =>
            LET i == CHOOSE k \in Mutating(p) : TRUE
                queries == After(p, i, "queryAsyncJobResult")
                lookups == After(p, i, "listLoadBalancerRules")
                listings == After(p, i, "listLoadBalancerRuleInstances")
            IN  IF params[p].poll_async
                  THEN /\ pc[p] \in {"m_poll", "m_refetch", "m_get_result",
                                     "done", "failed"}
                       /\ pc[p] \in {"m_refetch", "m_get_result", "done"} =>
                            /\ queries = {i + 1}
                            /\ OwnJobs(p) = {}
                       /\ pc[p] \in {"m_get_result", "done"} =>
                            lookups = {i + 2}
                       /\ pc[p] = "done" => \A k \in listings : k > i + 2
                       /\ msg[p] = "Failed: job errortext" =>
                            /\ pc[p] = "failed" /\ exit[p] = "fail_json"
                            /\ queries = {Len(calls[p])}
                  ELSE /\ pc[p] \in {"m_get_result", "done", "failed"}
                       /\ queries = {} /\ lookups = {}
                       /\ msg[p] # "Failed: job errortext")
  /\ [][\A p \in Procs :
          /\ (IsMember(p) /\ pc[p] = "m_poll" /\ StepOf(p) /\ ~Raised(p)) =>
               \E j \in OwnJobs(p) :
                 /\ j.status # "pending"
                 /\ j.status = "failed" =>
                      pc'[p] = "failed" /\ exit'[p] = "fail_json"
                 /\ j.status = "ok" => pc'[p] = "m_refetch"
          /\ (IsMember(p) /\ pc[p] = "m_call" /\ StepOf(p)
              /\ pc'[p] # "failed" /\ ~params[p].poll_async) =>
               /\ pc'[p] = "m_get_result"
               /\ \E j \in jobs' \ jobs :
                    j.jobid = res'[p] /\ j.status = "pending"]_vars

\* A polled add is done: the job was queried right after the call, the
\* rule looked up after that, and the VMs sent are members.
C14_Witness ==
  \E p \in Procs :
    /\ IsAdd(p) /\ params[p].poll_async /\ pc[p] = "done"
    /\ \E i \in Mutating(p) :
         /\ calls[p][i + 1].api = "queryAsyncJobResult"
         /\ calls[p][i + 2].api = "listLoadBalancerRules"
         /\ Len(calls[p]) = i + 3
    /\ to_change_ids[p] # {}
    /\ \A v \in to_change_ids[p] : <<rule[p].id, v>> \in instances

\* The lookups a membership invocation makes with scope arguments.
RuleLookups(p) == Issued(p, {"listLoadBalancerRules"})
VMListings(p) == Issued(p, {"listVirtualMachines"})

\* C16 as stated: every rule lookup and every VM listing of a membership
\* invocation carries the invocation's resolved scope, zone included.
C16_AsStated ==
  \A p \in Procs :
    IsMember(p) =>
      \A i \in RuleLookups(p) \cup VMListings(p) :
        calls[p][i].scope = params[p].scope

\* C16: every rule lookup of a membership invocation, the one after the job
\* included, carries the invocation's account and zone and its rule name;
\* the VM listing carries the same account and no zone, so the identifiers
\* resolved are VMs of the invocation's account, of whatever zone.
C16_ScopeConsistency ==
  \A p \in Procs :
    IsMember(p) =>
      /\ \A i \in RuleLookups(p) :
           /\ calls[p][i].scope = params[p].scope
           /\ calls[p][i].name = params[p].name
      /\ \A i \in VMListings(p) :
           /\ calls[p][i].scope.account = params[p].scope.account
           /\ calls[p][i].scope.zone = None
      /\ \A v \in to_change_ids[p] :
           VMById(v).account = params[p].scope.account
      /\ rule[p] # NoRule =>
           /\ rule[p].account = params[p].scope.account
           /\ rule[p].zone = params[p].scope.zone

\* An add in zone1 has sent a VM of zone2 to the provider.
C16_Witness ==
  \E p \in Procs :
    /\ IsAdd(p) /\ pc[p] = "done"
    /\ Cardinality(RuleLookups(p)) = 2
    /\ \E i \in Mutating(p) :
         \E v \in calls[p][i].vmids : VMById(v).zone # params[p].scope.zone

C15_StaleDelta ==
  \A p \in Procs :
    (IsMember(p) /\ HasRead(p)) =>
      /\ \A i \in Mutating(p) :
           /\ calls[p][i].vmids = {FirstInListing(p, n) : n \in Delta(p)}
           /\ stale[p] \subseteq calls[p][i].vmids
      /\ Mutating(p) = {} => stale[p] = {}
      /\ \A v \in stale[p] :
           IF IsAdd(p)
             THEN /\ VMById(v).name \notin Current(p)
                  /\ \E q \in Procs \ {p} :
                       /\ IsAdd(q)
                       /\ \E k \in Mutating(q) :
                            /\ v \in calls[q][k].vmids
                            /\ calls[q][k].id = calls[p][2].id
             ELSE VMById(v).name \in Current(p)

\* Two adds interleaved: the second call names a VM the first has made a
\* member since the second invocation read the member list.
C15_Witness ==
  \E p \in Procs :
    /\ IsAdd(p) /\ pc[p] = "done" /\ result[p].changed
    /\ stale[p] # {}
    /\ \E i \in Mutating(p) : stale[p] = calls[p][i].vmids

\* The invocation repeats a normal-mode membership task that ended with a
\* result.
Repeats(p) ==
  /\ IsMember(p) /\ prev.params.module = "member"
  /\ ~prev.params.check_mode /\ prev.exit = "exit_json"
  /\ params[p].name = prev.params.name /\ params[p].vms = prev.params.vms
  /\ params[p].state = prev.params.state
  /\ params[p].scope = prev.params.scope

ProviderErrors ==
  {"CloudStackException", "Failed: errortext", "Failed: job errortext"}

\* The invocation is the second task of the playbook, in normal mode, and
\* repeats the first, which ran in check mode: the provider is as the
\* check-mode run found it until the normal-mode run's own call.
AfterCheck(p) ==
  /\ IsMember(p) /\ runs = 2 /\ prev.params.module = "member"
  /\ prev.params.check_mode /\ ~params[p].check_mode
  /\ params[p].name = prev.params.name /\ params[p].vms = prev.params.vms
  /\ params[p].state = prev.params.state
  /\ params[p].scope = prev.params.scope

\* C18: a membership task run in check mode and then, with the same rule,
\* state and vms against the same provider state, in normal mode ends the
\* same way both times when the provider fails neither run: with "Unknown
\* rule", with "Unknown VM" or with a result, and the two results carry
\* the same changed value; the check-mode run has issued no mutating call,
\* the normal-mode run has issued one exactly when changed is true.
C18_CheckPredicts ==
  \A p \in Procs :
    (AfterCheck(p) /\ pc[p] \in {"done", "failed"}
     /\ msg[p] \notin ProviderErrors /\ prev.msg \notin ProviderErrors) =>
      /\ exit[p] = prev.exit
      /\ msg[p] = prev.msg
      /\ msg[p] \in {None, "Unknown rule", "Unknown VM"}
      /\ ~prev.called
      /\ pc[p] = "done" =>
           /\ result[p].changed = prev.changed
           /\ result[p].changed <=> Mutating(p) # {}

\* The check-mode run announced a change and the normal-mode run made it.
C18_Witness ==
  \E p \in Procs :
    /\ AfterCheck(p) /\ pc[p] = "done"
    /\ prev.exit = "exit_json" /\ prev.changed /\ ~prev.called
    /\ result[p].changed /\ Mutating(p) # {}
    /\ params[p].poll_async
    /\ \A v \in to_change_ids[p] : <<rule[p].id, v>> \in instances
====
